---- MODULE Spec2Model ----
(***************************************************************************)
(* Model of src/pprint/pprint.cc: the document algebra, the combinators,   *)
(* and the four chained stream stages of pretty_print (generate, annotate, *)
(* correct_gbeg, output).                                                  *)
(*                                                                         *)
(* A std::string is a sequence of one-character strings, so that lengths,  *)
(* columns and newlines are those of the real text.                        *)
(***************************************************************************)
EXTENDS Integers, Sequences, FiniteSets, TLC

(***************************************************************************)
(* Bounds of the model.                                                    *)
(***************************************************************************)
\* largest page width handed to pretty_print
MaxWidth == 7
\* number of leaves, groups and nests of a generated document
MaxUnits == 4
\* largest number of arguments/links of a funcall or dotted_list
MaxArgs == 3
\* largest number of children of each group of a pair of adjacent groups
MaxRow == 2
MaxFeed == 3

(***************************************************************************)
(* Characters and strings.                                                 *)
(***************************************************************************)
NL == "\n"
SP == " "

RECURSIVE Spaces(_)
\* std::string(n, ' ')
Spaces(n) ==
    IF n <= 0 THEN <<>> ELSE <<SP>> \o Spaces(n - 1)

(***************************************************************************)
(* unsigned int.  A value u of the 32-bit unsigned type is represented by  *)
(* the integer congruent to it modulo 2^32 that lies in [-2^31, 2^31):     *)
(* addition and subtraction of representatives are then the wrapping       *)
(* operations of the machine, and a negative representative r stands for   *)
(* the wrapped value 2^32 + r.  Comparison has to be the unsigned one.     *)
(***************************************************************************)
UIntLe(a, b) ==
    IF (a < 0) = (b < 0) THEN a <= b ELSE b < 0

(***************************************************************************)
(* Documents.                                                              *)
(***************************************************************************)
make_text(text) ==
    [tag |-> "text", text |-> text, small |-> <<>>, cont |-> <<>>,
     tail |-> <<>>, children |-> <<>>]

make_cond(l, r, t) ==
    [tag |-> "cond", text |-> <<>>, small |-> l, cont |-> r,
     tail |-> t, children |-> <<>>]

make_concat(args) ==
    [tag |-> "concat", text |-> <<>>, small |-> <<>>, cont |-> <<>>,
     tail |-> <<>>, children |-> args]

make_group(child) ==
    [tag |-> "group", text |-> <<>>, small |-> <<>>, cont |-> <<>>,
     tail |-> <<>>, children |-> <<child>>]

make_nest(child) ==
    [tag |-> "nest", text |-> <<>>, small |-> <<>>, cont |-> <<>>,
     tail |-> <<>>, children |-> <<child>>]

RECURSIVE width_of(_)
\* document_t::width() of each of the five classes
width_of(d) ==
    CASE d.tag = "text" -> Len(d.text)
      [] d.tag = "cond" -> Len(d.small)
      [] d.tag = "concat" ->
            LET RECURSIVE Sum(_)
                Sum(i) == IF i > Len(d.children) THEN 0
                          ELSE width_of(d.children[i]) + Sum(i + 1)
            IN Sum(1)
      [] OTHER -> width_of(d.children[1])

empty == make_text(<<>>)
br == make_cond(<<SP>>, <<>>, <<>>)
dot == make_cond(<<".">>, <<".">>, <<>>)

\* mutant: the list is not wrapped in a Nest
comma_separated_no_nest(init) ==
    IF Len(init) = 0 THEN empty
    ELSE LET v == [i \in 1..(3 * Len(init) - 2) |->
                     IF i = 1 THEN init[1]
                     ELSE CASE (i - 2) % 3 = 0 -> make_text(<<",">>)
                            [] (i - 2) % 3 = 1 -> br
                            [] OTHER -> init[((i - 2) \div 3) + 2]]
         IN make_concat(v)

comma_separated(init) ==
    IF Len(init) = 0 THEN empty
    ELSE LET v == [i \in 1..(3 * Len(init) - 2) |->
                     IF i = 1 THEN init[1]
                     ELSE CASE (i - 2) % 3 = 0 -> make_text(<<",">>)
                            [] (i - 2) % 3 = 1 -> br
                            [] OTHER -> init[((i - 2) \div 3) + 2]]
         IN make_nest(make_concat(v))

arglist(init) ==
    make_concat(<<make_text(<<"(">>), comma_separated(init), make_text(<<")">>)>>)

\* mutant: the first dot is the breakable dot too
dotted_list_int_all_dots(init) ==
    IF Len(init) = 0 THEN empty
    ELSE IF Len(init) = 1 THEN make_nest(init[1])
    ELSE LET v == [i \in 1..(2 * Len(init) - 1) |->
                     IF i % 2 = 1 THEN init[(i + 1) \div 2] ELSE dot]
         IN make_concat(<<v[1], make_nest(make_concat(SubSeq(v, 2, Len(v))))>>)

dotted_list_int(init) ==
    IF Len(init) = 0 THEN empty
    ELSE IF Len(init) = 1 THEN make_nest(init[1])
    ELSE LET v == [i \in 1..(2 * Len(init) - 1) |->
                     IF i % 2 = 1 THEN init[(i + 1) \div 2]
                     ELSE IF i = 2 THEN make_text(<<".">>) ELSE dot]
         IN make_concat(<<v[1], make_nest(make_concat(SubSeq(v, 2, Len(v))))>>)

dotted_list(init) ==
    dotted_list_int(init)

funcall(name, init) ==
    make_concat(<<make_text(name), arglist(init)>>)

r_dot(args) ==
    dotted_list_int(<<make_text(<<"r">>)>> \o args)

(***************************************************************************)
(* Stream elements.  hpos is boost::optional<size_t>: NoPos is "not set"   *)
(* (what pos_or_not prints as -1).                                         *)
(***************************************************************************)
NoPos == -1

text_element_t(payload) ==
    [kind |-> "text", payload |-> payload, small |-> <<>>, tail |-> <<>>,
     cont |-> <<>>, hpos |-> NoPos]

cond_element_t(l, t, r) ==
    [kind |-> "cond", payload |-> <<>>, small |-> l, tail |-> t,
     cont |-> r, hpos |-> NoPos]

marker_element_t(kind, hpos) ==
    [kind |-> kind, payload |-> <<>>, small |-> <<>>, tail |-> <<>>,
     cont |-> <<>>, hpos |-> hpos]

nbeg_element_t == marker_element_t("nbeg", NoPos)
nend_element_t == marker_element_t("nend", NoPos)
gbeg_element_t == marker_element_t("gbeg", NoPos)
gend_element_t == marker_element_t("gend", NoPos)

(***************************************************************************)
(* Phase 1: generate_stream_visitor_t.  The recursion of visit() is kept   *)
(* as a stack of tasks: a document still to visit, or an element the       *)
(* current operator() still has to emit after its child returns.           *)
(***************************************************************************)
VisitTask(d) == [op |-> "visit", doc |-> d, elem |-> gend_element_t]
EmitTask(e) == [op |-> "emit", doc |-> empty, elem |-> e]

\* operator()(const text_t &)
generate_text(t) ==
    [emit |-> <<text_element_t(t.text)>>, push |-> <<>>]

\* operator()(const cond_t &)
generate_cond(c) ==
    [emit |-> <<cond_element_t(c.small, c.tail, c.cont)>>, push |-> <<>>]

\* operator()(const concat_t &)
generate_concat(c) ==
    [emit |-> <<>>,
     push |-> [i \in 1..Len(c.children) |-> VisitTask(c.children[i])]]

\* operator()(const group_t &)
generate_group(g) ==
    [emit |-> <<gbeg_element_t>>,
     push |-> <<VisitTask(g.children[1]), EmitTask(gend_element_t)>>]

\* mutant: the NEnd that closes the Nest is not emitted
generate_nest_no_nend(n) ==
    [emit |-> <<nbeg_element_t>>,
     push |-> <<EmitTask(gbeg_element_t), VisitTask(n.children[1]),
                EmitTask(gend_element_t)>>]

\* operator()(const nest_t &)
generate_nest(n) ==
    [emit |-> <<nbeg_element_t>>,
     push |-> <<EmitTask(gbeg_element_t), VisitTask(n.children[1]),
                EmitTask(gend_element_t), EmitTask(nend_element_t)>>]

\* one step of the traversal: d->visit(v), or the next (*fn)(...) of a frame
generate_step(task) ==
    IF task.op = "emit" THEN [emit |-> <<task.elem>>, push |-> <<>>]
    ELSE CASE task.doc.tag = "text" -> generate_text(task.doc)
           [] task.doc.tag = "cond" -> generate_cond(task.doc)
           [] task.doc.tag = "concat" -> generate_concat(task.doc)
           [] task.doc.tag = "group" -> generate_group(task.doc)
           [] OTHER -> generate_nest(task.doc)

RECURSIVE generate_stream(_)
\* generate_stream as the recursion it is in the source: the elements one
\* doc->visit(v) emits, in order
generate_stream(d) ==
    CASE d.tag = "text" -> <<text_element_t(d.text)>>
      [] d.tag = "cond" -> <<cond_element_t(d.small, d.tail, d.cont)>>
      [] d.tag = "concat" ->
            LET RECURSIVE Cat(_)
                Cat(i) == IF i > Len(d.children) THEN <<>>
                          ELSE generate_stream(d.children[i]) \o Cat(i + 1)
            IN Cat(1)
      [] d.tag = "group" ->
            <<gbeg_element_t>> \o generate_stream(d.children[1])
                \o <<gend_element_t>>
      [] OTHER ->
            <<nbeg_element_t, gbeg_element_t>> \o generate_stream(d.children[1])
                \o <<gend_element_t, nend_element_t>>

(***************************************************************************)
(* Phase 2: annotate_stream_visitor_t.  Each handler returns the new       *)
(* position and the element it forwards.                                   *)
(***************************************************************************)
annotate_text(position, t) ==
    LET p == position + Len(t.payload)
    IN [position |-> p, elem |-> [t EXCEPT !.hpos = p]]

annotate_cond(position, c) ==
    LET p == position + Len(c.small)
    IN [position |-> p, elem |-> [c EXCEPT !.hpos = p]]

\* mutant: the GBeg is given the running position as its hpos
annotate_gbeg_sets_hpos(position, e) ==
    [position |-> position, elem |-> [e EXCEPT !.hpos = position]]

annotate_gbeg(position, e) ==
    [position |-> position, elem |-> e]

annotate_gend(position, e) ==
    [position |-> position, elem |-> [e EXCEPT !.hpos = position]]

annotate_nbeg(position, e) ==
    [position |-> position, elem |-> e]

annotate_nend(position, e) ==
    [position |-> position, elem |-> [e EXCEPT !.hpos = position]]

annotate_visit(position, e) ==
    CASE e.kind = "text" -> annotate_text(position, e)
      [] e.kind = "cond" -> annotate_cond(position, e)
      [] e.kind = "gbeg" -> annotate_gbeg(position, e)
      [] e.kind = "gend" -> annotate_gend(position, e)
      [] e.kind = "nbeg" -> annotate_nbeg(position, e)
      [] OTHER -> annotate_nend(position, e)

(***************************************************************************)
(* Phase 3: correct_gbeg_visitor_t.  lookahead is the vector of buffers;   *)
(* each handler returns the new lookahead, the elements it hands to the    *)
(* next stage (in order) and a fault: "guarantee" when a guarantee() fails *)
(* and "ub" when back()/pop_back() is applied to an empty vector.          *)
(***************************************************************************)
\* mutant: the element is put at the front of the open buffer
maybe_push_front(lookahead, e) ==
    IF lookahead = <<>>
    THEN [lookahead |-> lookahead, fwd |-> <<e>>, fault |-> "none"]
    ELSE [lookahead |-> [lookahead EXCEPT ![Len(lookahead)] = <<e>> \o @],
          fwd |-> <<>>, fault |-> "none"]

\* mutant: the element is handed on at once even while a group is open
maybe_push_through(lookahead, e) ==
    [lookahead |-> lookahead, fwd |-> <<e>>, fault |-> "none"]

maybe_push(lookahead, e) ==
    IF lookahead = <<>>
    THEN [lookahead |-> lookahead, fwd |-> <<e>>, fault |-> "none"]
    ELSE [lookahead |-> [lookahead EXCEPT ![Len(lookahead)] = Append(@, e)],
          fwd |-> <<>>, fault |-> "none"]

Failed(lookahead, fault) ==
    [lookahead |-> lookahead, fwd |-> <<>>, fault |-> fault]

correct_text(lookahead, t) ==
    IF t.hpos = NoPos THEN Failed(lookahead, "guarantee")
    ELSE maybe_push(lookahead, t)

correct_cond(lookahead, c) ==
    IF c.hpos = NoPos THEN Failed(lookahead, "guarantee")
    ELSE maybe_push(lookahead, c)

correct_nbeg(lookahead, e) ==
    IF e.hpos # NoPos THEN Failed(lookahead, "guarantee")
    ELSE maybe_push(lookahead, e)

correct_nend(lookahead, e) ==
    IF e.hpos = NoPos THEN Failed(lookahead, "guarantee")
    ELSE maybe_push(lookahead, e)

correct_gbeg(lookahead, e) ==
    IF e.hpos # NoPos THEN Failed(lookahead, "guarantee")
    ELSE [lookahead |-> Append(lookahead, <<>>), fwd |-> <<>>, fault |-> "none"]

\* mutant: the GBeg put in front of the group is left without its hpos
correct_gend_unset_gbeg(lookahead, e) ==
    IF e.hpos = NoPos THEN Failed(lookahead, "guarantee")
    ELSE IF lookahead = <<>> THEN Failed(lookahead, "ub")
    ELSE LET b == lookahead[Len(lookahead)]
             rest == SubSeq(lookahead, 1, Len(lookahead) - 1)
             whole == <<gbeg_element_t>> \o b \o <<e>>
         IN IF rest = <<>>
            THEN [lookahead |-> rest, fwd |-> whole, fault |-> "none"]
            ELSE [lookahead |-> [rest EXCEPT ![Len(rest)] = @ \o whole],
                  fwd |-> <<>>, fault |-> "none"]

\* mutant: the new GBeg is put after the buffered contents, not before
correct_gend_gbeg_after(lookahead, e) ==
    IF e.hpos = NoPos THEN Failed(lookahead, "guarantee")
    ELSE IF lookahead = <<>> THEN Failed(lookahead, "ub")
    ELSE LET b == lookahead[Len(lookahead)]
             rest == SubSeq(lookahead, 1, Len(lookahead) - 1)
             whole == b \o <<marker_element_t("gbeg", e.hpos)>> \o <<e>>
         IN IF rest = <<>>
            THEN [lookahead |-> rest, fwd |-> whole, fault |-> "none"]
            ELSE [lookahead |-> [rest EXCEPT ![Len(rest)] = @ \o whole],
                  fwd |-> <<>>, fault |-> "none"]

correct_gend(lookahead, e) ==
    IF e.hpos = NoPos THEN Failed(lookahead, "guarantee")
    ELSE IF lookahead = <<>> THEN Failed(lookahead, "ub")
    ELSE LET b == lookahead[Len(lookahead)]
             rest == SubSeq(lookahead, 1, Len(lookahead) - 1)
             whole == <<marker_element_t("gbeg", e.hpos)>> \o b \o <<e>>
         IN IF rest = <<>>
            THEN [lookahead |-> rest, fwd |-> whole, fault |-> "none"]
            ELSE [lookahead |-> [rest EXCEPT ![Len(rest)] = @ \o whole],
                  fwd |-> <<>>, fault |-> "none"]

correct_visit(lookahead, e) ==
    CASE e.kind = "text" -> correct_text(lookahead, e)
      [] e.kind = "cond" -> correct_cond(lookahead, e)
      [] e.kind = "gbeg" -> correct_gbeg(lookahead, e)
      [] e.kind = "gend" -> correct_gend(lookahead, e)
      [] e.kind = "nbeg" -> correct_nbeg(lookahead, e)
      [] OTHER -> correct_nend(lookahead, e)

(***************************************************************************)
(* Phase 4: output_visitor_t.  o is the visitor's state: width,            *)
(* fittingElements, rightEdge, hpos (unsigned int), indent and result.     *)
(***************************************************************************)
\* mutant: the visitor starts as if inside a fitting group
output_visitor_t_fitting(w) ==
    [width |-> w, fittingElements |-> 1, rightEdge |-> w, hpos |-> 0,
     indent |-> <<>>, result |-> <<>>]

output_visitor_t(w) ==
    [width |-> w, fittingElements |-> 0, rightEdge |-> w, hpos |-> 0,
     indent |-> <<>>, result |-> <<>>]

output_text(o, t) ==
    [o EXCEPT !.result = @ \o t.payload,
              !.hpos = @ + Len(t.payload)]

\* mutant: a break indents to the outermost open Nest, not the innermost
output_cond_outer_indent(o, c) ==
    IF o.fittingElements = 0
    THEN LET currentIndent == IF o.indent = <<>> THEN 0 ELSE o.indent[1]
             newHpos == currentIndent + Len(c.cont)
         IN [o EXCEPT !.result = @ \o c.tail \o <<NL>>
                                   \o Spaces(currentIndent) \o c.cont,
                      !.fittingElements = 0,
                      !.hpos = newHpos,
                      !.rightEdge = (o.width - newHpos) + c.hpos]
    ELSE [o EXCEPT !.result = @ \o c.small,
                   !.hpos = @ + Len(c.small)]

\* mutant: the tail is written in the flat form too
output_cond_flat_tail(o, c) ==
    IF o.fittingElements = 0
    THEN LET currentIndent == IF o.indent = <<>> THEN 0
                              ELSE o.indent[Len(o.indent)]
             newHpos == currentIndent + Len(c.cont)
         IN [o EXCEPT !.result = @ \o c.tail \o <<NL>>
                                   \o Spaces(currentIndent) \o c.cont,
                      !.fittingElements = 0,
                      !.hpos = newHpos,
                      !.rightEdge = (o.width - newHpos) + c.hpos]
    ELSE [o EXCEPT !.result = @ \o c.tail \o c.small,
                   !.hpos = @ + Len(c.small)]

output_cond(o, c) ==
    IF o.fittingElements = 0
    THEN LET currentIndent == IF o.indent = <<>> THEN 0
                              ELSE o.indent[Len(o.indent)]
             newHpos == currentIndent + Len(c.cont)
         IN [o EXCEPT !.result = @ \o c.tail \o <<NL>>
                                   \o Spaces(currentIndent) \o c.cont,
                      !.fittingElements = 0,
                      !.hpos = newHpos,
                      !.rightEdge = (o.width - newHpos) + c.hpos]
    ELSE [o EXCEPT !.result = @ \o c.small,
                   !.hpos = @ + Len(c.small)]

\* mutant: a group fits only when it ends strictly before the right edge
output_gbeg_strict(o, e) ==
    IF o.fittingElements # 0 \/ (e.hpos # o.rightEdge /\ UIntLe(e.hpos, o.rightEdge))
    THEN [o EXCEPT !.fittingElements = @ + 1]
    ELSE [o EXCEPT !.fittingElements = 0]

\* mutant: a group may end one column past the right edge
output_gbeg_off_by_one(o, e) ==
    IF o.fittingElements # 0 \/ UIntLe(e.hpos, o.rightEdge + 1)
    THEN [o EXCEPT !.fittingElements = @ + 1]
    ELSE [o EXCEPT !.fittingElements = 0]

\* mutant: the operands of the comparison are exchanged
output_gbeg_swapped(o, e) ==
    IF o.fittingElements # 0 \/ UIntLe(o.rightEdge, e.hpos)
    THEN [o EXCEPT !.fittingElements = @ + 1]
    ELSE [o EXCEPT !.fittingElements = 0]

\* mutant: every group is taken to fit
output_gbeg_always(o, e) ==
    [o EXCEPT !.fittingElements = @ + 1]

\* mutant: fittingElements is a flag: a group inside a fitting one is not
\* counted
output_gbeg_flag(o, e) ==
    IF o.fittingElements # 0 \/ UIntLe(e.hpos, o.rightEdge)
    THEN [o EXCEPT !.fittingElements = 1]
    ELSE [o EXCEPT !.fittingElements = 0]

output_gbeg(o, e) ==
    IF o.fittingElements # 0 \/ UIntLe(e.hpos, o.rightEdge)
    THEN [o EXCEPT !.fittingElements = @ + 1]
    ELSE [o EXCEPT !.fittingElements = 0]

\* mutant: the counter is decremented without the guard
output_gend_unguarded(o, e) ==
    [o EXCEPT !.fittingElements = @ - 1]

output_gend(o, e) ==
    IF o.fittingElements # 0
    THEN [o EXCEPT !.fittingElements = @ - 1]
    ELSE o

output_nbeg(o, e) ==
    [o EXCEPT !.indent = Append(@, o.hpos)]

\* indent.pop_back(); on an empty vector this is undefined behaviour, which
\* the action that applies it resolves (see OutNEnd)
output_nend(o, e) ==
    [o EXCEPT !.indent = SubSeq(@, 1, Len(@) - 1)]

output_visit(o, e) ==
    CASE e.kind = "text" -> output_text(o, e)
      [] e.kind = "cond" -> output_cond(o, e)
      [] e.kind = "gbeg" -> output_gbeg(o, e)
      [] e.kind = "gend" -> output_gend(o, e)
      [] e.kind = "nbeg" -> output_nbeg(o, e)
      [] OTHER -> output_nend(o, e)

(***************************************************************************)
(* pretty_print as a function: the chain generate -> annotate ->           *)
(* correct_gbeg -> output run to completion on one document.               *)
(***************************************************************************)
RECURSIVE output_all(_, _)
\* for (const auto &element : *b) (*fn)(element), into the output visitor
output_all(o, es) ==
    IF es = <<>> THEN o
    ELSE output_all(output_visit(o, Head(es)), Tail(es))

RECURSIVE run_chain(_, _, _, _)
run_chain(tasks, position, lookahead, o) ==
    IF tasks = <<>> THEN o
    ELSE LET g == generate_step(Head(tasks))
             rest == g.push \o Tail(tasks)
         IN IF g.emit = <<>> THEN run_chain(rest, position, lookahead, o)
            ELSE LET a == annotate_visit(position, g.emit[1])
                     c == correct_visit(lookahead, a.elem)
                 IN run_chain(rest, a.position, c.lookahead,
                              output_all(o, c.fwd))

pretty_print(w, d) ==
    run_chain(<<VisitTask(d)>>, 0, <<>>, output_visitor_t(w)).result

(***************************************************************************)
(* Inputs: the documents and page widths pretty_print is called with.      *)
(***************************************************************************)
TextStrs == {<<"a">>, <<"b", "c">>}
NameStrs == {<<"f">>, <<"f", "n">>}
Texts == {make_text(s) : s \in TextStrs}
\* a Cond with a tail, an empty small and a continuation longer than it
semi == make_cond(<<>>, <<"x", "y">>, <<";">>)
\* the leaves of the generated trees
Leaves == {make_text(<<"a">>), br, semi}

\* ItemSeqs[n]: the child lists made of n leaves, groups and nests in all
ItemSeqs[n \in 0..MaxUnits] ==
    IF n = 0 THEN {<<>>}
    ELSE UNION {
           LET inner == IF k = 1 THEN {} ELSE ItemSeqs[k - 1] \ {<<>>}
               items == (IF k = 1 THEN Leaves ELSE {})
                        \cup {make_group(make_concat(c)) : c \in inner}
                        \cup {make_nest(make_concat(c)) : c \in inner}
           IN {<<it>> \o rest : it \in items, rest \in ItemSeqs[n - k]}
           : k \in 1..n }

TreeDocs == {make_concat(c) : c \in UNION {ItemSeqs[n] : n \in 0..MaxUnits}}

TextSeqs(lo, hi) ==
    UNION {[1..n -> Texts] : n \in lo..hi}

\* two adjacent groups, each of up to MaxRow Texts and line breaks
Rows == UNION {[1..n -> {make_text(<<"b", "c">>), br}] : n \in 1..MaxRow}
GroupPairs ==
    {make_concat(<<make_group(make_concat(x)), make_group(make_concat(y))>>) :
        x \in Rows, y \in Rows}

Calls ==
    {[fn |-> "document", name |-> <<>>, args |-> <<d>>] :
        d \in TreeDocs \cup GroupPairs}
    \cup {[fn |-> "funcall", name |-> n, args |-> a] :
            n \in NameStrs, a \in TextSeqs(0, MaxArgs)}
    \cup {[fn |-> "dotted_list", name |-> <<>>, args |-> a] :
            a \in TextSeqs(0, MaxArgs)}

DocOf(c) ==
    CASE c.fn = "funcall" -> funcall(c.name, c.args)
      [] c.fn = "dotted_list" -> dotted_list(c.args)
      [] OTHER -> c.args[1]

(***************************************************************************)
(* The state machine: one call of pretty_print(width, doc).                *)
(***************************************************************************)
VARIABLES
    call,       \* how the caller built the document
    doc,        \* the document handed to pretty_print
    tasks,      \* generate_stream_visitor_t: the traversal still to do
    position,   \* annotate_stream_visitor_t::position
    lookahead,  \* correct_gbeg_visitor_t::lookahead
    received,   \* history: the elements the annotator has handed to the
                \* corrector, as it handed them
    pending,    \* elements the corrector is handing to the output visitor
    output,     \* output_visitor_t
    rlog,       \* history: the elements output_visitor_t has visited, each
                \* with the length of result and the values of
                \* fittingElements, hpos and rightEdge when it arrived
    pc,         \* "running", "returned" or "crashed"
    ret         \* the string pretty_print returned

vars ==
    <<call, doc, tasks, position, lookahead, received, pending, output, rlog,
      pc, ret>>

Init ==
    /\ call \in Calls
    /\ doc = DocOf(call)
    /\ tasks = <<VisitTask(doc)>>
    /\ position = 0
    /\ lookahead = <<>>
    /\ received = <<>>
    /\ pending = <<>>
    /\ \E w \in 0..MaxWidth : output = output_visitor_t(w)
    /\ rlog = <<>>
    /\ pc = "running"
    /\ ret = <<>>

\* what a fault of the corrector does to the call: guarantee() aborts; the
\* undefined back()/pop_back() on an empty vector may abort or go on
AfterFault(fault) ==
    CASE fault = "none" -> {"running"}
      [] fault = "guarantee" -> {"crashed"}
      [] OTHER -> {"running", "crashed"}

\* the generator takes its next step: the element it emits, if any, goes
\* through the annotator and the corrector in the same call
Generate ==
    /\ pc = "running"
    /\ pending = <<>>
    /\ tasks # <<>>
    /\ LET g == generate_step(Head(tasks))
       IN /\ tasks' = g.push \o Tail(tasks)
          /\ IF g.emit = <<>>
             THEN UNCHANGED <<position, lookahead, received, pending, pc>>
             ELSE LET a == annotate_visit(position, g.emit[1])
                      c == correct_visit(lookahead, a.elem)
                  IN /\ position' = a.position
                     /\ received' = Append(received, a.elem)
                     /\ lookahead' = c.lookahead
                     /\ pending' = c.fwd
                     /\ pc' \in AfterFault(c.fault)
    /\ UNCHANGED <<call, doc, output, rlog, ret>>

Visiting(tag) ==
    tasks # <<>> /\ Head(tasks).op = "visit" /\ Head(tasks).doc.tag = tag

Emitting(kind) ==
    tasks # <<>> /\ Head(tasks).op = "emit" /\ Head(tasks).elem.kind = kind

VisitText == Visiting("text") /\ Generate
VisitCond == Visiting("cond") /\ Generate
VisitConcat == Visiting("concat") /\ Generate
VisitGroup == Visiting("group") /\ Generate
VisitNest == Visiting("nest") /\ Generate
EmitGBeg == Emitting("gbeg") /\ Generate
EmitGEnd == Emitting("gend") /\ Generate
EmitNEnd == Emitting("nend") /\ Generate

\* the output visitor receives the next element the corrector hands over
Output(kind) ==
    /\ pc = "running"
    /\ pending # <<>>
    /\ Head(pending).kind = kind
    /\ output' = output_visit(output, Head(pending))
    /\ pending' = Tail(pending)
    /\ rlog' = Append(rlog, [elem |-> Head(pending),
                              at |-> Len(output.result),
                              fitting |-> output.fittingElements,
                              hpos |-> output.hpos,
                              rightEdge |-> output.rightEdge])
    /\ UNCHANGED <<call, doc, tasks, position, lookahead, received, ret>>

OutText == Output("text") /\ UNCHANGED pc
OutCond == Output("cond") /\ UNCHANGED pc
OutGBeg == Output("gbeg") /\ UNCHANGED pc
OutGEnd == Output("gend") /\ UNCHANGED pc
OutNBeg == Output("nbeg") /\ UNCHANGED pc
\* pop_back() on an empty indent is undefined: the call may go on or crash
OutNEnd ==
    /\ Output("nend")
    /\ pc' \in (IF output.indent = <<>> THEN {"running", "crashed"}
                ELSE {"running"})

\* return output->result
Return ==
    /\ pc = "running"
    /\ tasks = <<>>
    /\ pending = <<>>
    /\ pc' = "returned"
    /\ ret' = output.result
    /\ UNCHANGED <<call, doc, tasks, position, lookahead, received, pending,
                   output, rlog>>

Next ==
    \/ VisitText \/ VisitCond \/ VisitConcat \/ VisitGroup \/ VisitNest
    \/ EmitGBeg \/ EmitGEnd \/ EmitNEnd
    \/ OutText \/ OutCond \/ OutGBeg \/ OutGEnd \/ OutNBeg \/ OutNEnd
    \/ Return

Spec == Init /\ [][Next]_vars

\* The generator, the annotator and the corrector never read the page
\* width: what is said of them alone is followed on one width.
InitStream == Init /\ output.width = MaxWidth

StreamSpec == InitStream /\ [][Next]_vars

\* pretty_print is one synchronous call: every stage is called from the one
\* before it and runs until it returns, so a step that can be taken is taken
FairSpec == StreamSpec /\ WF_vars(Next)

(***************************************************************************)
(* The chain of stages fed directly.  Each stage is a thunk that takes     *)
(* whatever element it is called with: here the chain is called with the   *)
(* streams of documents and with GBeg, GEnd and NEnd markers on their own, *)
(* in any order, so that streams that are not balanced reach the corrector *)
(* and the output visitor.                                                 *)
(***************************************************************************)
FeedItems ==
    {EmitTask(gbeg_element_t), EmitTask(gend_element_t), EmitTask(nend_element_t),
     VisitTask(make_text(<<"a">>)), VisitTask(br),
     VisitTask(make_nest(make_concat(
         <<make_group(make_concat(<<make_text(<<"a">>), br>>))>>)))}

InitStage ==
    /\ call = [fn |-> "stream", name |-> <<>>, args |-> <<>>]
    /\ doc = empty
    /\ tasks \in UNION {[1..n -> FeedItems] : n \in 1..MaxFeed}
    /\ position = 0
    /\ lookahead = <<>>
    /\ received = <<>>
    /\ pending = <<>>
    /\ \E w \in 0..MaxWidth : output = output_visitor_t(w)
    /\ rlog = <<>>
    /\ pc = "running"
    /\ ret = <<>>

StageSpec == InitStage /\ [][Next]_vars

(***************************************************************************)
(* Vocabulary of the properties: what is read off a document or a          *)
(* rendered string.                                                        *)
(***************************************************************************)
Returned == pc = "returned"

RECURSIVE Newlines(_)
\* the number of newline characters of a string
Newlines(s) ==
    IF s = <<>> THEN 0
    ELSE (IF Head(s) = NL THEN 1 ELSE 0) + Newlines(Tail(s))

RECURSIVE Column(_)
\* the column the cursor is at after writing s: the characters after the
\* last newline
Column(s) ==
    IF s = <<>> THEN 0
    ELSE IF s[Len(s)] = NL THEN 0
    ELSE 1 + Column(SubSeq(s, 1, Len(s) - 1))

RECURSIVE FlatString(_)
\* the Texts' strings and the Conds' smalls of a document, in order
FlatString(d) ==
    CASE d.tag = "text" -> d.text
      [] d.tag = "cond" -> d.small
      [] d.tag = "concat" ->
            LET RECURSIVE Cat(_)
                Cat(i) == IF i > Len(d.children) THEN <<>>
                          ELSE FlatString(d.children[i]) \o Cat(i + 1)
            IN Cat(1)
      [] OTHER -> FlatString(d.children[1])

RECURSIVE CondsEnclosed(_)
\* every Cond of the document lies inside a Group or a Nest
CondsEnclosed(d) ==
    CASE d.tag = "text" -> TRUE
      [] d.tag = "cond" -> FALSE
      [] d.tag = "concat" -> \A i \in 1..Len(d.children) : CondsEnclosed(d.children[i])
      [] OTHER -> TRUE

\* the state machine computes the function
RunIsFunction ==
    Returned => ret = pretty_print(output.width, doc)

(***************************************************************************)
(* C1 (as stated): for every document d and width W with width(d) <= W,    *)
(* pretty_print(W, d) has no newline and is the concatenation of the       *)
(* Texts' strings and the Conds' smalls.                                   *)
(***************************************************************************)
C1_FlatFit_AsStated ==
    (Returned /\ width_of(doc) <= output.width)
        => (Newlines(ret) = 0 /\ ret = FlatString(doc))

(***************************************************************************)
(* C1 (amended): the same, for documents in which every Cond lies inside   *)
(* a Group or a Nest.                                                      *)
(***************************************************************************)
C1_FlatFit ==
    (Returned /\ width_of(doc) <= output.width /\ CondsEnclosed(doc))
        => (Newlines(ret) = 0 /\ ret = FlatString(doc))

\* a document with a Cond, all Conds enclosed, that fits and was rendered
C1_Witness ==
    /\ Returned
    /\ width_of(doc) <= output.width
    /\ CondsEnclosed(doc)
    /\ \E i \in 1..Len(rlog) : rlog[i].elem.kind = "cond"
    /\ ret = FlatString(doc)

(***************************************************************************)
(* Reading the history: what each visited element put into result, and     *)
(* the group and nest brackets around it.                                  *)
(***************************************************************************)
Kind(k) == rlog[k].elem.kind

\* the part of result written by the k-th visited element
Segment(k) ==
    SubSeq(output.result, rlog[k].at + 1,
           IF k < Len(rlog) THEN rlog[k + 1].at ELSE Len(output.result))

\* the broken form of a Cond: tail, newline, n spaces, cont
BrokenForm(c, n) ==
    c.tail \o <<NL>> \o Spaces(n) \o c.cont

IsFlat(k) == Segment(k) = rlog[k].elem.small
IsBroken(k) == \E n \in 0..Len(Segment(k)) : Segment(k) = BrokenForm(rlog[k].elem, n)

CountKind(kind, lo, hi) == Cardinality({m \in lo..hi : Kind(m) = kind})

\* the number of groups opened after element i that are still open at k
GDepth(i, k) == CountKind("gbeg", i + 1, k - 1) - CountKind("gend", i + 1, k - 1)

\* the GEnd that closes the GBeg at i
MatchEnd(i) ==
    CHOOSE j \in (i + 1)..Len(rlog) : Kind(j) = "gend" /\ GDepth(i, j) = 0

\* the Nest opened at m is still open when element k arrives
NestOpenAt(m, k) ==
    /\ Kind(m) = "nbeg"
    /\ \A j \in (m + 1)..(k - 1) :
          CountKind("nbeg", m + 1, j) >= CountKind("nend", m + 1, j)

\* the output column at which the innermost Nest open at k was opened
\* (0 when none is open), read off the text written so far
AnchorColumn(k) ==
    LET open == {m \in 1..(k - 1) : NestOpenAt(m, k)}
    IN IF open = {} THEN 0
       ELSE LET m == CHOOSE x \in open : \A y \in open : y <= x
            IN Column(SubSeq(output.result, 1, rlog[m].at))

(***************************************************************************)
(* C2: a Group is all-or-nothing: either every Cond anywhere inside it is  *)
(* rendered flat, or every Cond directly inside it (inside no inner        *)
(* Group/Nest) is rendered broken.                                         *)
(***************************************************************************)
C2_GroupAllOrNothing ==
    Returned =>
        \A i \in 1..Len(rlog) :
            Kind(i) = "gbeg" =>
                LET j == MatchEnd(i)
                    inside == {k \in (i + 1)..(j - 1) : Kind(k) = "cond"}
                    direct == {k \in inside : GDepth(i, k) = 0}
                IN \/ \A k \in inside : IsFlat(k)
                   \/ \A k \in direct : IsBroken(k)

\* a group whose direct Cond broke while a Cond of an inner group stayed flat
C2_Witness ==
    /\ Returned
    /\ \E i \in 1..Len(rlog) :
          /\ Kind(i) = "gbeg"
          /\ \E k1, k2 \in (i + 1)..(MatchEnd(i) - 1) :
                /\ Kind(k1) = "cond" /\ GDepth(i, k1) = 0 /\ IsBroken(k1)
                /\ Kind(k2) = "cond" /\ GDepth(i, k2) > 0 /\ IsFlat(k2)

(***************************************************************************)
(* C5: text preservation: the output is exactly, in order, each Text's     *)
(* payload and for each Cond either small or tail, newline, spaces, cont.  *)
(***************************************************************************)
RECURSIVE LeafSeq(_)
\* the Texts and Conds of a document, in order
LeafSeq(d) ==
    CASE d.tag \in {"text", "cond"} -> <<d>>
      [] d.tag = "concat" ->
            LET RECURSIVE Cat(_)
                Cat(i) == IF i > Len(d.children) THEN <<>>
                          ELSE LeafSeq(d.children[i]) \o Cat(i + 1)
            IN Cat(1)
      [] OTHER -> LeafSeq(d.children[1])

\* s occurs in r at index i
OccursAt(s, r, i) ==
    /\ i + Len(s) - 1 <= Len(r)
    /\ \A m \in 1..Len(s) : r[i + m - 1] = s[m]

RECURSIVE RendersFrom(_, _, _, _)
\* r from index i on is a rendering of the leaves from index j on
RendersFrom(r, i, leaves, j) ==
    IF j > Len(leaves) THEN i = Len(r) + 1
    ELSE LET l == leaves[j]
         IN IF l.tag = "text"
            THEN OccursAt(l.text, r, i) /\ RendersFrom(r, i + Len(l.text), leaves, j + 1)
            ELSE \/ /\ OccursAt(l.small, r, i)
                    /\ RendersFrom(r, i + Len(l.small), leaves, j + 1)
                 \/ \E n \in 0..Len(r) :
                       /\ OccursAt(BrokenForm(l, n), r, i)
                       /\ RendersFrom(r, i + Len(BrokenForm(l, n)), leaves, j + 1)

C5_TextPreservation ==
    Returned => RendersFrom(ret, 1, LeafSeq(doc), 1)

\* a rendering with a Text, a flat Cond and a broken Cond
C5_Witness ==
    /\ Returned
    /\ \E k1, k2, k3 \in 1..Len(rlog) :
          /\ Kind(k1) = "text" /\ Segment(k1) # <<>>
          /\ Kind(k2) = "cond" /\ IsFlat(k2) /\ ~IsBroken(k2)
          /\ Kind(k3) = "cond" /\ IsBroken(k3) /\ ~IsFlat(k3)

(***************************************************************************)
(* C6: indentation alignment: a Cond that breaks writes tail, a newline,   *)
(* c spaces and cont, where c is the output column at which the innermost  *)
(* open Nest was opened (0 when no Nest is open), and leaves the           *)
(* renderer's column at c + len(cont).                                     *)
(***************************************************************************)
C6_IndentAlignment ==
    LET k == Len(rlog)
    IN (k > 0 /\ Kind(k) = "cond" /\ NL \in {Segment(k)[m] : m \in 1..Len(Segment(k))})
          => /\ Segment(k) = BrokenForm(rlog[k].elem, AnchorColumn(k))
             /\ output.hpos = AnchorColumn(k) + Len(rlog[k].elem.cont)
             /\ Column(output.result) = output.hpos

\* a break inside two open Nests that were opened at different columns
C6_Witness ==
    LET k == Len(rlog)
    IN /\ k > 0 /\ Kind(k) = "cond" /\ IsBroken(k) /\ ~IsFlat(k)
       /\ Len(output.indent) = 2
       /\ output.indent[1] # output.indent[2]
       /\ AnchorColumn(k) > 0

(***************************************************************************)
(* C3 and C4 speak of classes of documents.                                *)
(***************************************************************************)
\* the Conds of a document
CondsOf(d) ==
    LET leaves == LeafSeq(d)
    IN {leaves[i] : i \in {j \in 1..Len(leaves) : leaves[j].tag = "cond"}}

\* the Texts of a document
TextsOf(d) ==
    LET leaves == LeafSeq(d)
    IN {leaves[i] : i \in {j \in 1..Len(leaves) : leaves[j].tag = "text"}}

\* every Cond's cont is no longer than its small (as for br and dot): the
\* output column then never passes the stream position, and
\* (width - hpos) + h is never negative
NoLongCont(d) ==
    \A c \in CondsOf(d) : Len(c.cont) <= Len(c.small)

\* every Cond has len(small) >= len(tail) + len(cont) - len(small)
CondsReasonable(d) ==
    \A c \in CondsOf(d) : Len(c.small) >= Len(c.tail) + Len(c.cont) - Len(c.small)

(***************************************************************************)
(* C3 (as stated): a wider page never gives more newlines.  It is stated   *)
(* here on the documents whose Conds have a cont no longer than their      *)
(* small, a part of what the claim covers, where rightEdge cannot wrap.    *)
(***************************************************************************)
C3_Monotone_AsStated ==
    (Returned /\ NoLongCont(doc))
        => \A w2 \in 0..output.width :
              Newlines(ret) <= Newlines(pretty_print(w2, doc))

(***************************************************************************)
(* C3 (amended): for a document whose Conds have a cont no longer than     *)
(* their small, a page at least as wide as the document's flat width       *)
(* gives no more newlines than any narrower page.                          *)
(***************************************************************************)
C3_WidestIsFewest ==
    (Returned /\ NoLongCont(doc) /\ width_of(doc) <= output.width)
        => \A w2 \in 0..output.width :
              Newlines(ret) <= Newlines(pretty_print(w2, doc))

\* a page wide enough still breaks a Cond (one outside every group), and a
\* narrower page breaks more
C3_Witness ==
    /\ Returned /\ NoLongCont(doc) /\ width_of(doc) <= output.width
    /\ Newlines(ret) > 0
    /\ \E w2 \in 0..output.width : Newlines(pretty_print(w2, doc)) > Newlines(ret)

(***************************************************************************)
(* C4 (as stated): when every Cond is reasonable, no line of the output    *)
(* is longer than the width unless a Text longer than the width exists.    *)
(***************************************************************************)
C4_NoLongLine_AsStated ==
    (Returned /\ CondsReasonable(doc))
        => \/ \A i \in 1..Len(ret) : Column(SubSeq(ret, 1, i)) <= output.width
           \/ \E t \in TextsOf(doc) : Len(t.text) > output.width

(***************************************************************************)
(* C4 (amended): for a document whose Conds have a cont no longer than     *)
(* their small, no Text or Cond rendered while a fitting group is open     *)
(* (fittingElements # 0) ends beyond the width: a line exceeds the width   *)
(* only through what is written while no fitting group is open.            *)
(***************************************************************************)
C4_FittingGroupWithinWidth ==
    LET k == Len(rlog)
    IN (k > 0 /\ Kind(k) \in {"text", "cond"} /\ rlog[k].fitting # 0 /\ NoLongCont(doc))
          => Column(output.result) <= output.width

\* after a break, a Text of a fitting group ends exactly at the width
C4_Witness ==
    LET k == Len(rlog)
    IN /\ k > 0 /\ Kind(k) = "text" /\ rlog[k].fitting # 0 /\ NoLongCont(doc)
       /\ Segment(k) # <<>>
       /\ Column(output.result) = output.width
       /\ \E j \in 1..(k - 1) : Kind(j) = "cond" /\ IsBroken(j) /\ ~IsFlat(j)

(***************************************************************************)
(* C7 (as stated): a GBeg processed while fittingElements = 0 increments   *)
(* it exactly when the output column plus the flat width of the group's    *)
(* contents is <= width, and otherwise leaves it 0.                        *)
(***************************************************************************)
RECURSIVE FlatWidthToGEnd(_, _)
\* the flat width of the elements of p up to the GEnd closing depth d
FlatWidthToGEnd(p, d) ==
    IF p = <<>> THEN 0
    ELSE LET e == Head(p)
         IN CASE e.kind = "gend" ->
                    IF d = 0 THEN 0 ELSE FlatWidthToGEnd(Tail(p), d - 1)
              [] e.kind = "gbeg" -> FlatWidthToGEnd(Tail(p), d + 1)
              [] OTHER -> Len(e.payload) + Len(e.small) + FlatWidthToGEnd(Tail(p), d)

C7_FitDecision_AsStated ==
    [][(OutGBeg /\ output.fittingElements = 0)
          => output'.fittingElements =
                (IF Column(output.result) + FlatWidthToGEnd(Tail(pending), 0)
                        <= output.width
                 THEN 1 ELSE 0)]_vars

\* the rule of C7 does hold at every GBeg met before rightEdge has wrapped
\* (its representative is not negative)
FitDecisionUnlessWrapped ==
    [][(OutGBeg /\ output.fittingElements = 0 /\ output.rightEdge >= 0)
          => output'.fittingElements =
                (IF Column(output.result) + FlatWidthToGEnd(Tail(pending), 0)
                        <= output.width
                 THEN 1 ELSE 0)]_vars

(***************************************************************************)
(* C8 (as stated): at width 0 every Cond is rendered broken, indented to   *)
(* the innermost open Nest.                                                *)
(***************************************************************************)
AllCondsBroken ==
    \A k \in 1..Len(rlog) :
        Kind(k) = "cond" =>
            /\ Segment(k) = BrokenForm(rlog[k].elem, AnchorColumn(k))
            /\ ~IsFlat(k)

C8_ZeroWidth_AsStated ==
    (Returned /\ output.width = 0) => AllCondsBroken

(***************************************************************************)
(* C8 (amended): at width 0, in a document whose Conds all have a          *)
(* non-empty small and a cont no longer than it, every Cond is rendered    *)
(* broken, indented to the innermost open Nest.                            *)
(***************************************************************************)
SmallNonEmpty(d) ==
    \A c \in CondsOf(d) : Len(c.small) >= 1

C8_ZeroWidth ==
    (Returned /\ output.width = 0 /\ SmallNonEmpty(doc) /\ NoLongCont(doc))
        => AllCondsBroken

\* width 0, and a Cond broke to a Nest opened right of column 0
C8_Witness ==
    /\ Returned /\ output.width = 0 /\ SmallNonEmpty(doc) /\ NoLongCont(doc)
    /\ \E k \in 1..Len(rlog) :
          Kind(k) = "cond" /\ IsBroken(k) /\ AnchorColumn(k) > 0

(***************************************************************************)
(* C9: funcall(name, [text(a1), ..., text(an)]), n >= 1: when the flat     *)
(* line name(a1, ..., an) is no longer than the width the output is that   *)
(* line; when len(name)+1+sum(len(ai))+2(n-1) exceeds the width every ','  *)
(* is followed by a newline and len(name)+1 spaces.                        *)
(***************************************************************************)
RECURSIVE Joined(_, _, _)
\* the strings of the Texts ts from index i on, each preceded by sep
Joined(ts, i, sep) ==
    IF i > Len(ts) THEN <<>>
    ELSE sep \o ts[i].text \o Joined(ts, i + 1, sep)

RECURSIVE TotalLen(_, _)
TotalLen(ts, i) ==
    IF i > Len(ts) THEN 0 ELSE Len(ts[i].text) + TotalLen(ts, i + 1)

FuncallLine(name, args, sep) ==
    name \o <<"(">> \o args[1].text \o Joined(args, 2, sep) \o <<")">>

C9_FuncallLayout ==
    (Returned /\ call.fn = "funcall" /\ Len(call.args) >= 1)
        => LET flat == FuncallLine(call.name, call.args, <<",", SP>>)
               broken == FuncallLine(call.name, call.args,
                                     <<",", NL>> \o Spaces(Len(call.name) + 1))
               groupEnd == Len(call.name) + 1 + TotalLen(call.args, 1)
                             + 2 * (Len(call.args) - 1)
           IN /\ Len(flat) <= output.width => ret = flat
              /\ groupEnd > output.width => ret = broken

\* a call of three arguments rendered broken, that a wider page renders flat
C9_Witness ==
    /\ Returned /\ call.fn = "funcall" /\ Len(call.args) = 3
    /\ Newlines(ret) = 2
    /\ \E w \in 0..MaxWidth + 4 :
          pretty_print(w, doc) = FuncallLine(call.name, call.args, <<",", SP>>)

(***************************************************************************)
(* C10: dotted_list(text(d1), ..., text(dn)), n >= 2: d1.d2 is never       *)
(* broken; when the flat chain is no longer than the width the output is   *)
(* that line; otherwise every later dot is a newline, len(d1) spaces and   *)
(* ".".                                                                    *)
(***************************************************************************)
DottedChain(args, sep) ==
    args[1].text \o <<".">> \o args[2].text \o Joined(args, 3, sep)

C10_DottedLayout ==
    (Returned /\ call.fn = "dotted_list" /\ Len(call.args) >= 2)
        => LET flat == DottedChain(call.args, <<".">>)
               broken == DottedChain(call.args,
                                     <<NL>> \o Spaces(Len(call.args[1].text)) \o <<".">>)
           IN /\ OccursAt(call.args[1].text \o <<".">> \o call.args[2].text, ret, 1)
              /\ Len(flat) <= output.width => ret = flat
              /\ Len(flat) > output.width => ret = broken

\* a chain of three links rendered broken, that a wider page renders flat
C10_Witness ==
    /\ Returned /\ call.fn = "dotted_list" /\ Len(call.args) = 3
    /\ Newlines(ret) = 1
    /\ \E w \in 0..MaxWidth :
          pretty_print(w, doc) = DottedChain(call.args, <<".">>)

(***************************************************************************)
(* C11: a Cond visited while fittingElements # 0 appends exactly small     *)
(* (no tail, no cont, no newline) and advances the column by len(small);   *)
(* whatever else a Cond writes, it writes with fittingElements = 0.        *)
(***************************************************************************)
C11_TailBreakOnly ==
    LET k == Len(rlog)
    IN (k > 0 /\ Kind(k) = "cond")
          => LET c == rlog[k].elem
                 before == SubSeq(output.result, 1, rlog[k].at)
             IN /\ rlog[k].fitting # 0 =>
                      /\ output.result = before \o c.small
                      /\ output.hpos = rlog[k].hpos + Len(c.small)
                      /\ Column(output.result) = Column(before) + Len(c.small)
                /\ output.result # before \o c.small => rlog[k].fitting = 0

\* a Cond with a tail rendered flat, after the same Cond was rendered broken
C11_Witness ==
    LET k == Len(rlog)
    IN /\ k > 0 /\ Kind(k) = "cond" /\ rlog[k].fitting # 0
       /\ rlog[k].elem.tail # <<>>
       /\ Segment(k) = rlog[k].elem.small
       /\ \E j \in 1..(k - 1) :
             /\ rlog[j].elem = rlog[k].elem
             /\ rlog[j].fitting = 0
             /\ Segment(j) # rlog[j].elem.small

(***************************************************************************)
(* Reading the corrector's two sides: the stream it has handed on, and     *)
(* the groups of the document in the order their GBeg is emitted.          *)
(***************************************************************************)
\* the elements the corrector has handed to the output visitor so far
Forwarded ==
    [i \in 1..Len(rlog) |-> rlog[i].elem] \o pending

\* the flat width of the first n elements of the stream f
FlatBefore(f, n) ==
    LET RECURSIVE Sum(_)
        Sum(i) == IF i > n THEN 0
                  ELSE Len(f[i].payload) + Len(f[i].small) + Sum(i + 1)
    IN Sum(1)

CountIn(f, kind, lo, hi) == Cardinality({m \in lo..hi : f[m].kind = kind})

\* the GEnd of f that closes the GBeg at i
MatchIn(f, i) ==
    CHOOSE j \in (i + 1)..Len(f) :
        /\ f[j].kind = "gend"
        /\ CountIn(f, "gbeg", i + 1, j - 1) = CountIn(f, "gend", i + 1, j - 1)

RECURSIVE GroupChildren(_)
\* the children of the Groups and Nests of a document, in visiting order
GroupChildren(d) ==
    CASE d.tag \in {"text", "cond"} -> <<>>
      [] d.tag = "concat" ->
            LET RECURSIVE Cat(_)
                Cat(i) == IF i > Len(d.children) THEN <<>>
                          ELSE GroupChildren(d.children[i]) \o Cat(i + 1)
            IN Cat(1)
      [] OTHER -> <<d.children[1]>> \o GroupChildren(d.children[1])

(***************************************************************************)
(* C12: in the stream the corrector hands on, every element but NBeg has   *)
(* its hpos set, and every GBeg carries the hpos of its matching GEnd,     *)
(* which is the flat column just before the group plus width() of the      *)
(* group's child.                                                          *)
(***************************************************************************)
C12_CorrectorOutput ==
    LET f == Forwarded
        gs == GroupChildren(doc)
    IN \A i \in 1..Len(f) :
          /\ f[i].kind # "nbeg" => f[i].hpos # NoPos
          /\ f[i].kind = "gbeg" =>
                /\ \E j \in (i + 1)..Len(f) : j = MatchIn(f, i)
                /\ f[i].hpos = f[MatchIn(f, i)].hpos
                /\ f[i].hpos = FlatBefore(f, i - 1)
                                 + width_of(gs[CountIn(f, "gbeg", 1, i)])

\* a group of non-zero width that starts right of column 0, inside another
\* group
C12_Witness ==
    LET f == Forwarded
    IN \E i \in 1..Len(f) :
          /\ f[i].kind = "gbeg"
          /\ \E k \in (i + 1)..(MatchIn(f, i) - 1) :
                /\ f[k].kind = "gbeg"
                /\ FlatBefore(f, k - 1) > 0
                /\ f[k].hpos > FlatBefore(f, k - 1)

(***************************************************************************)
(* C13: the corrector keeps the order: what it has handed on is a prefix   *)
(* of what it has received, each GBeg replaced by a GBeg that carries an   *)
(* hpos and every other element the same; what it has received and not     *)
(* handed on is in its buffers, in order, each open group's GBeg not yet   *)
(* made; nothing is dropped, duplicated or reordered.                      *)
(***************************************************************************)
\* x is the received element r, or the GBeg with an hpos that replaces it
Replaces(x, r) ==
    IF r.kind = "gbeg"
    THEN x.kind = "gbeg" /\ x.hpos # NoPos /\ [x EXCEPT !.hpos = NoPos] = r
    ELSE x = r

RECURSIVE Held(_)
\* the buffers from the outermost in: each stands for the GBeg that opened
\* it (which is not stored) followed by its contents
Held(bufs) ==
    IF bufs = <<>> THEN <<>>
    ELSE <<gbeg_element_t>> \o Head(bufs) \o Held(Tail(bufs))

\* the positions of Held(bufs) that stand for the GBeg of an open group
RECURSIVE OpenAt(_, _)
OpenAt(bufs, base) ==
    IF bufs = <<>> THEN {}
    ELSE {base + 1} \cup OpenAt(Tail(bufs), base + 1 + Len(Head(bufs)))

C13_OrderPreserved ==
    LET f == Forwarded
        h == Held(lookahead)
        open == OpenAt(lookahead, 0)
    IN /\ Len(received) = Len(f) + Len(h)
       /\ \A i \in 1..Len(f) : Replaces(f[i], received[i])
       /\ \A i \in 1..Len(h) :
             IF i \in open THEN received[Len(f) + i] = h[i]
             ELSE Replaces(h[i], received[Len(f) + i])

\* after a group was handed on, an inner group has been spliced into the
\* buffer of its parent and another element was put behind it
C13_Witness ==
    /\ Len(rlog) > 0
    /\ Len(lookahead) = 1
    /\ LET b == lookahead[1]
       IN /\ Len(b) >= 4
          /\ b[1].kind = "gbeg" /\ b[1].hpos # NoPos
          /\ b[Len(b) - 1].kind = "gend"
          /\ b[Len(b)].kind \in {"text", "cond"}

(***************************************************************************)
(* C14: an element the corrector receives while no group is open is handed *)
(* on at once; one it receives while a group is open (the GBeg that opens  *)
(* the group and the GEnd that closes it included) is handed on, with      *)
(* nothing before, exactly when the GEnd of the outermost open group       *)
(* arrives, and then everything buffered is handed on; so every element    *)
(* received is handed on in the end, and no buffer is left at the end of   *)
(* the stream.                                                             *)
(***************************************************************************)
ForwardingStep ==
    IF received' = received
    THEN Forwarded' = Forwarded
    ELSE LET e == received'[Len(received')]
         IN IF lookahead = <<>> /\ e.kind # "gbeg"
            THEN /\ pending' = <<e>>
                 /\ lookahead' = <<>>
            ELSE IF e.kind = "gend" /\ Len(lookahead) = 1
            THEN /\ lookahead' = <<>>
                 /\ Len(pending') = Len(received') - Len(Forwarded)
                 /\ pending'[Len(pending')] = e
            ELSE /\ pending' = <<>>
                 /\ Forwarded' = Forwarded
                 /\ lookahead' # <<>>

AllForwarded ==
    lookahead = <<>> /\ Len(Forwarded) = Len(received)

C14_ForwardingTiming ==
    /\ [][ForwardingStep]_vars
    /\ [](Returned => AllForwarded)
    /\ <>[](tasks = <<>> /\ AllForwarded)

\* the GEnd of an outermost group has just arrived: the group, which holds
\* an inner group, is handed on whole, after an element that was handed on
\* at once
C14_Witness ==
    /\ Len(rlog) > 0
    /\ Len(pending) >= 5
    /\ pending[1].kind = "gbeg"
    /\ \E i \in 2..(Len(pending) - 1) : pending[i].kind = "gbeg"
    /\ AllForwarded

(***************************************************************************)
(* C15: the annotator hands each element on at once, one for one and in    *)
(* order: a Text with hpos = the running position after adding             *)
(* len(payload), a Cond with hpos = the position after adding len(small),  *)
(* GEnd and NEnd with hpos = the position, which they leave alone, GBeg    *)
(* and NBeg with hpos unset.  So the corrector's guarantees (hpos set on   *)
(* Text, Cond, NEnd and GEnd, unset on NBeg and GBeg) never fail.          *)
(***************************************************************************)
\* what the annotator makes of the i-th element of the generated stream g
Annotated(g, i) ==
    IF g[i].kind \in {"gbeg", "nbeg"} THEN g[i]
    ELSE [g[i] EXCEPT !.hpos = FlatBefore(g, i)]

\* the guarantee the corrector makes of an element it receives
Guaranteed(e) ==
    IF e.kind \in {"gbeg", "nbeg"} THEN e.hpos = NoPos ELSE e.hpos # NoPos

C15_AnnotatorRules ==
    LET g == generate_stream(doc)
        n == Len(received)
    IN /\ n <= Len(g)
       /\ \A i \in 1..n : received[i] = Annotated(g, i) /\ Guaranteed(received[i])
       /\ position = FlatBefore(g, n)
       /\ Returned => n = Len(g)
       /\ pc # "crashed"

\* a document that uses one node twice has been through the annotator: the
\* two elements made of the node differ in hpos, and a Nest was annotated
C15_Witness ==
    /\ Returned
    /\ \E i, j \in 1..Len(received) :
          /\ i < j
          /\ received[i].kind = "cond"
          /\ received[j] = [received[i] EXCEPT !.hpos = received[j].hpos]
          /\ received[i].hpos < received[j].hpos
    /\ \E i \in 1..(Len(received) - 1) :
          /\ received[i].kind = "nbeg" /\ received[i].hpos = NoPos
          /\ received[i + 1].kind = "gbeg" /\ received[i + 1].hpos = NoPos
    /\ \E i \in 1..Len(received) :
          received[i].kind = "nend" /\ received[i].hpos > 0

(***************************************************************************)
(* C16: the generated stream is balanced: a Group is GBeg, its child,      *)
(* GEnd and a Nest is NBeg, GBeg, its child, GEnd, NEnd, so the markers    *)
(* are properly nested and matched.  So the corrector never pops an empty  *)
(* buffer stack, the output visitor never pops an empty indent stack, the  *)
(* depth of indent is the number of open Nests, and both stacks are empty  *)
(* at the end of the stream.                                               *)
(***************************************************************************)
RECURSIVE OpenMarkers(_, _, _)
\* the begin markers of f[i..] left open on top of the open ones in stack,
\* or <<"bad">> when an end marker does not close the innermost open one
OpenMarkers(f, i, stack) ==
    IF i > Len(f) THEN stack
    ELSE LET k == f[i].kind
             top == IF stack = <<>> THEN "none" ELSE stack[Len(stack)]
             pop == SubSeq(stack, 1, Len(stack) - 1)
         IN CASE k \in {"gbeg", "nbeg"} -> OpenMarkers(f, i + 1, Append(stack, k))
              [] k = "gend" -> IF top = "gbeg" THEN OpenMarkers(f, i + 1, pop)
                               ELSE <<"bad">>
              [] k = "nend" -> IF top = "nbeg" THEN OpenMarkers(f, i + 1, pop)
                               ELSE <<"bad">>
              [] OTHER -> OpenMarkers(f, i + 1, stack)

Opened(f, kind) == Cardinality({i \in 1..Len(f) : f[i] = kind})

C16_BalancedStream ==
    LET open == OpenMarkers(received, 1, <<>>)
        n == Len(received)
        k == Len(rlog)
    IN /\ open # <<"bad">>
       /\ (n > 1 /\ received[n - 1].kind = "nbeg") => received[n].kind = "gbeg"
       /\ (n > 0 /\ received[n].kind = "nend") => received[n - 1].kind = "gend"
       /\ Len(lookahead) = Opened(open, "gbeg")
       /\ Len(output.indent) = CountKind("nbeg", 1, k) - CountKind("nend", 1, k)
       /\ pc # "crashed"
       /\ Returned => (open = <<>> /\ lookahead = <<>> /\ output.indent = <<>>)

\* the call returned after two Nests, one inside the other, were open
C16_Witness ==
    /\ Returned
    /\ lookahead = <<>> /\ output.indent = <<>>
    /\ \E k \in 1..Len(rlog) :
          /\ Kind(k) = "nend"
          /\ CountKind("nbeg", 1, k) - CountKind("nend", 1, k) = 1
    /\ \E k \in 1..Len(rlog) : Kind(k) = "gend" /\ Kind(k - 1) # "gbeg"

(***************************************************************************)
(* C17: fittingElements never goes below zero (a GEnd met with             *)
(* fittingElements = 0 changes nothing); in every state it is the number   *)
(* of open groups that were found to fit, which is the nesting depth       *)
(* inside the outermost open fitting group (0 if there is none); it is     *)
(* never more than the number of open groups, and 0 at the end.            *)
(***************************************************************************)
RECURSIVE OpenFrom(_, _)
\* the indices of the GBegs of rlog[i..] left open, on top of those of stack
OpenFrom(i, stack) ==
    IF i > Len(rlog) THEN stack
    ELSE CASE Kind(i) = "gbeg" -> OpenFrom(i + 1, Append(stack, i))
           [] Kind(i) = "gend" -> OpenFrom(i + 1, SubSeq(stack, 1, Len(stack) - 1))
           [] OTHER -> OpenFrom(i + 1, stack)

\* the groups, by the index of their GBeg, still open after all of rlog
OpenGroups ==
    LET open == OpenFrom(1, <<>>)
    IN {open[m] : m \in 1..Len(open)}

\* the group whose GBeg is at i was found to fit when its GBeg arrived
FoundFitting(i) ==
    \/ rlog[i].fitting # 0
    \/ UIntLe(rlog[i].elem.hpos, rlog[i].rightEdge)

C17_FittingCounter ==
    LET k == Len(rlog)
        fit == {i \in OpenGroups : FoundFitting(i)}
    IN /\ output.fittingElements >= 0
       /\ output.fittingElements = Cardinality(fit)
       /\ fit # {} => output.fittingElements =
                         Cardinality({i \in OpenGroups : \E m \in fit : m <= i})
       /\ output.fittingElements <= Cardinality(OpenGroups)
       /\ (k > 0 /\ Kind(k) = "gend" /\ rlog[k].fitting = 0)
             => output.fittingElements = 0
       /\ (tasks = <<>> /\ pending = <<>>) => output.fittingElements = 0

\* inside a group that did not fit, a group that fits has just been opened
C17_Witness ==
    /\ Len(rlog) > 0
    /\ Kind(Len(rlog)) = "gbeg"
    /\ Cardinality(OpenGroups) = 2
    /\ output.fittingElements = 1

(***************************************************************************)
(* C18 and C19 speak of the value of rightEdge as a number.  The unsigned  *)
(* value with representative r is r when r >= 0 and 2^32 + r when r < 0;   *)
(* the numbers it is compared with here are far below 2^31 in size.        *)
(***************************************************************************)
\* the unsigned value with representative r is the (small) integer v
UIntIs(r, v) == r >= 0 /\ r = v

\* the last element visited is a Cond that broke
BrokeLast ==
    /\ Len(rlog) > 0
    /\ Kind(Len(rlog)) = "cond"
    /\ rlog[Len(rlog)].fitting = 0

(***************************************************************************)
(* C18 (as stated): after a Text or Cond e is visited, rightEdge - e.hpos  *)
(* = width - hpos; rightEdge changes only when a Cond breaks, where it     *)
(* becomes (width - the new column) + the Cond's hpos.                     *)
(***************************************************************************)
C18_RightEdge_AsStated ==
    LET k == Len(rlog)
    IN k > 0 =>
          /\ Kind(k) \in {"text", "cond"} =>
                UIntIs(output.rightEdge,
                       (output.width - output.hpos) + rlog[k].elem.hpos)
          /\ BrokeLast =>
                UIntIs(output.rightEdge,
                       (output.width - Column(output.result)) + rlog[k].elem.hpos)
          /\ ~BrokeLast => output.rightEdge = rlog[k].rightEdge

\* what does hold of rightEdge: the same equations modulo 2^32 (between
\* representatives), and no change but at a break
RightEdgeModulo ==
    LET k == Len(rlog)
    IN k > 0 =>
          /\ Kind(k) \in {"text", "cond"} =>
                output.rightEdge - rlog[k].elem.hpos = output.width - output.hpos
          /\ BrokeLast =>
                output.rightEdge =
                    (output.width - Column(output.result)) + rlog[k].elem.hpos
          /\ ~BrokeLast => output.rightEdge = rlog[k].rightEdge

(***************************************************************************)
(* C19 (as stated): at every break (width - (indent + len(cont))) + h is   *)
(* not negative, that is, the output column is at most width plus the      *)
(* stream position of the element, so rightEdge is that number and never   *)
(* a wrapped one.                                                          *)
(***************************************************************************)
C19_NoUnderflow_AsStated ==
    BrokeLast =>
        LET c == rlog[Len(rlog)].elem
        IN /\ (output.width - (AnchorColumn(Len(rlog)) + Len(c.cont))) + c.hpos >= 0
           /\ Column(output.result) <= output.width + c.hpos
           /\ output.rightEdge >= 0

\* rightEdge does not wrap when no Cond has a cont longer than its small
NoUnderflowUnlessLongCont ==
    NoLongCont(doc) =>
        /\ output.rightEdge >= 0
        /\ Column(output.result) <= output.width + position

(***************************************************************************)
(* C20: a Cond visited while no fitting group is open breaks, whatever the *)
(* width: a Cond inside no Group or Nest, or one that comes after every    *)
(* fitting group around it has ended, is written as tail, newline, indent, *)
(* cont; fittingElements starts at 0 and is 0 again after the GEnd of      *)
(* each outermost group.                                                   *)
(***************************************************************************)
C20_BreakOutsideFittingGroup ==
    LET k == Len(rlog)
    IN /\ k = 0 => output.fittingElements = 0
       /\ (k > 0 /\ Kind(k) = "gend" /\ OpenGroups = {})
             => output.fittingElements = 0
       /\ (k > 0 /\ Kind(k) = "cond"
             /\ \A i \in OpenGroups : ~FoundFitting(i))
             => /\ rlog[k].fitting = 0
                /\ Segment(k) = BrokenForm(rlog[k].elem, AnchorColumn(k))
                /\ Newlines(Segment(k)) = 1

\* on the widest page, wider than the whole document, a Cond that follows
\* a group that fitted is written broken
C20_Witness ==
    LET k == Len(rlog)
    IN /\ output.width = MaxWidth
       /\ width_of(doc) < output.width
       /\ k > 2 /\ Kind(k) = "cond" /\ Kind(k - 1) = "gend"
       /\ rlog[k - 1].fitting = 1
       /\ OpenGroups = {}
       /\ Newlines(Segment(k)) = 1

(***************************************************************************)
(* C21 (as stated): when a stream that is not balanced reaches a stage (a  *)
(* GEnd reaches the corrector while it has no open buffer, or an NEnd      *)
(* reaches the output visitor while indent is empty), the call aborts, as  *)
(* it does when a guarantee on hpos fails: it does not go on.              *)
(***************************************************************************)
\* the corrector has received a GEnd that closes no group
StrayGEnd ==
    \E n \in 1..Len(received) :
        /\ received[n].kind = "gend"
        /\ CountIn(received, "gbeg", 1, n) < CountIn(received, "gend", 1, n)

\* the output visitor has visited an NEnd that closes no Nest
StrayNEnd ==
    \E k \in 1..Len(rlog) :
        /\ Kind(k) = "nend"
        /\ CountKind("nbeg", 1, k) < CountKind("nend", 1, k)

C21_FailFast_AsStated ==
    (StrayGEnd \/ StrayNEnd) => pc = "crashed"

\* a stream that is balanced never makes a stage abort
BalancedNeverAborts ==
    pc = "crashed" => (StrayGEnd \/ StrayNEnd)

\* what would rule out a normal return after either violation; neither
\* holds: the call can go on to return a string
NoReturnAfterStrayGEnd ==
    ~(Returned /\ StrayGEnd)

NoReturnAfterStrayNEnd ==
    ~(Returned /\ StrayNEnd)

====
